---- MODULE Spec2Model ----
(***************************************************************************)
(* Model of src/routes/image-metadata.routes.ts: the three route handlers  *)
(* of the image metadata router (GET /images, GET /images/:id and          *)
(* POST /images).  An async handler is cut at its awaits: the part up to   *)
(* the first await is one action, and each continuation (the awaited call  *)
(* returning or raising) is one action.  The collaborators the router      *)
(* imports (ImageService, isValidImage, isLocalFile, the constants and the *)
(* ImageMetadata collection) are modelled at their interface.              *)
(***************************************************************************)
EXTENDS Naturals, Sequences, FiniteSets

\* ---------------------------------------------------------------- bounds
\* Number of create requests that can be in flight or finished.
MaxReqs == 2
\* Largest initial collection of the read-path specification.
MaxStore == 2
\* Longest `objects` query string of the read-path specification.
MaxQueryLen == 3

Reqs == 1..MaxReqs

\* ------------------------------------------------------------- constants
\* constants/http-status.constants
HTTP_STATUS_OKAY == 200
HTTP_STATUS_BAD_REQUEST == 400
HTTP_STATUS_UNAUTHORIZED == 401
HTTP_STATUS_INTERNAL_SERVER_ERROR == 500

\* constants/messages.constants
IMAGE_FILE_NOT_FOUND == "image file not found"
IMAGE_FILE_TYPE_UNSUPPORTED == "unsupported image file type"
IMAGE_NOT_FOUND == "image not found"
IMAGE_PROCESSING_FAILED == "image processing failed"
MISSING_AUTH == "MISSING_AUTH"

\* ------------------------------------------------------------ JS values
\* The value of a header or query parameter that is not there.
Undefined == "<undefined>"

\* req.headers.authorization: absent, empty, or one of two tokens.
Auths == {Undefined, "", "tokA", "tokB"}

\* A reference string, by the parts the validator and the classifier read:
\* where it points (a path of the serving host or a remote URL), its name
\* and its extension.
RemoteJpg == [loc |-> "remote", name |-> "cat", ext |-> "jpg"]
RemoteTxt == [loc |-> "remote", name |-> "doc", ext |-> "txt"]
LocalJpg == [loc |-> "local", name |-> "cat", ext |-> "jpg"]
LocalTxt == [loc |-> "local", name |-> "doc", ext |-> "txt"]
Refs == {RemoteJpg, RemoteTxt, LocalJpg, LocalTxt}
\* The value of a variable that holds no reference yet.
EmptyRef == [loc |-> "remote", name |-> "", ext |-> ""]

\* The URLs handleLocalFile can resolve an upload to.
DurableUrls == {[loc |-> "remote", name |-> "up1", ext |-> "jpg"],
                [loc |-> "remote", name |-> "up2", ext |-> "jpg"]}

\* req.body: the imgUrl field and one descriptive field of the caller.
Bodies == [imgUrl : Refs, label : {"l1"}]

\* The label sets createImage's detection can attach to a record.
DetectedObjects == {{}, {<<"a">>}}

\* What an awaited call can raise: an Error with a message, an object with
\* no message property, and undefined (a promise rejected with no reason).
ErrNotFound == [type |-> "Error", message |-> IMAGE_FILE_NOT_FOUND]
ErrOther == [type |-> "Error", message |-> "ECONNREFUSED"]
ErrNoMessage == [type |-> "object", message |-> Undefined]
ErrUndefined == [type |-> "undefined", message |-> Undefined]
Raised == {ErrNotFound, ErrOther, ErrNoMessage, ErrUndefined}

\* Responses: res.status(s).send(b).  A string body is Text(m), an object
\* body is the object itself.
Text(m) == [text |-> m]
Message(m) == [message |-> m]
Response(s, b) == [status |-> s, body |-> b]
NoRes == [status |-> 0, body |-> Text("")]
None == [tag |-> "none"]
Returned(v) == [tag |-> "returned", value |-> v]
Threw(e) == [tag |-> "raised", value |-> e]

VARIABLES store, pc, req, imgUrl, isUploadedFile, res,
          resolverCalls, createCalls, resolverOut, createOut,
          getReq, getRes

vars == <<store, pc, req, imgUrl, isUploadedFile, res,
          resolverCalls, createCalls, resolverOut, createOut,
          getReq, getRes>>

postVars == <<pc, req, imgUrl, isUploadedFile, res,
              resolverCalls, createCalls, resolverOut, createOut>>

\* ----------------------------------------------------- lib (interfaces)
\* lib/valid-image: accepted by a recognised image extension.
isValidImage(ref) == ref.ext \in {"jpg", "png"}

\* lib/check-filepath: a path of the serving host.
isLocalFile(ref) == ref.loc = "local"

\* ImageService.createImage, when it succeeds: the record it persists and
\* returns is the record it was given, with the identifier the store
\* assigns, the detected labels and the local/remote flag.
PersistedRecord(body, isUp, id, objs) ==
    [f \in DOMAIN body \cup {"id", "objects", "isUploadedFile"} |->
        CASE f = "id" -> id
          [] f = "objects" -> objs
          [] f = "isUploadedFile" -> isUp
          [] OTHER -> body[f]]

\* The identifier the store assigns to its next record (no record is ever
\* deleted).
NextId(st) == Len(st) + 1

\* ------------------------------------------------------- POST /images
\* Mutant: only an absent header counts as missing, an empty one passes.
MissingAuthorizationAbsentOnly(auth) == auth = Undefined

\* if (!req.headers.authorization)
MissingAuthorization(auth) == auth = Undefined \/ auth = ""

\* Mutant: the reference is classified before it is validated.
RouteClassifyFirst(auth, ref) ==
    IF auth = Undefined \/ auth = "" THEN "missingAuth"
    ELSE IF isLocalFile(ref) THEN "local"
    ELSE IF ~isValidImage(ref) THEN "unsupported"
    ELSE "remote"

\* Mutant: a reference already created successfully is turned away.
RouteDeduplicating(auth, ref) ==
    IF auth = Undefined \/ auth = "" THEN "missingAuth"
    ELSE IF ~isValidImage(ref) THEN "unsupported"
    ELSE IF \E q \in Reqs : /\ createOut[q].tag = "returned"
                            /\ req[q].body.imgUrl = ref THEN "unsupported"
    ELSE IF isLocalFile(ref) THEN "local"
    ELSE "remote"

\* The handler's guards, in the order of the code: which way a request
\* goes before its first external call.
Route(auth, ref) ==
    IF MissingAuthorization(auth) THEN "missingAuth"
    ELSE IF ~isValidImage(ref) THEN "unsupported"
    ELSE IF isLocalFile(ref) THEN "local"
    ELSE "remote"

\* Mutant: the spread comes last, { imgUrl, ...req.body }, so the imgUrl of
\* the body wins.
UpdatedBodySpreadLast(body, url) ==
    [f \in DOMAIN body \cup {"imgUrl"} |->
        IF f \in DOMAIN body THEN body[f] ELSE url]

\* Mutant: only the reference is sent on, the caller's other fields are
\* dropped.
UpdatedBodyUrlOnly(body, url) == [imgUrl |-> url]

\* const updatedBody = { ...req.body, imgUrl }
UpdatedBody(body, url) ==
    [f \in DOMAIN body \cup {"imgUrl"} |->
        IF f = "imgUrl" THEN url ELSE body[f]]

\* The arguments of ImageService.handleLocalFile(imgUrl, authorization)
ResolverArgs(ref, auth) == [ref |-> ref, token |-> auth]

\* Mutant: the authorization header is not forwarded to createImage.
CreateArgsNoToken(body, url, isUp, auth) ==
    [body |-> UpdatedBody(body, url), isUploadedFile |-> isUp,
     token |-> Undefined]

\* Mutant: the body is sent on with the imgUrl the caller gave.
CreateArgsStaleUrl(body, url, isUp, auth) ==
    [body |-> body, isUploadedFile |-> isUp, token |-> auth]

\* The arguments of ImageService.createImage(updatedBody, isUploadedFile,
\* authorization)
CreateArgs(body, url, isUp, auth) ==
    [body |-> UpdatedBody(body, url), isUploadedFile |-> isUp, token |-> auth]

\* Mutant: the record is sent inside an envelope.
SendResultEnvelope(result) ==
    Response(HTTP_STATUS_OKAY, [result |-> result])

\* res.status(OKAY).send({ ...result })
SendResult(result) ==
    Response(HTTP_STATUS_OKAY, [f \in DOMAIN result |-> result[f]])

\* const msg = (error as Error).message: reading a property of undefined
\* throws a TypeError inside the catch block.
MessageThrows(err) == err.type = "undefined"

\* Mutant: the not-found message is not told apart.
CatchResponseGeneric(err) ==
    Response(HTTP_STATUS_INTERNAL_SERVER_ERROR, Text(IMAGE_PROCESSING_FAILED))

\* The catch block's answer for a raised value whose message can be read.
CatchResponse(err) ==
    IF err.message = IMAGE_FILE_NOT_FOUND
    THEN Response(HTTP_STATUS_BAD_REQUEST, Text(IMAGE_FILE_NOT_FOUND))
    ELSE Response(HTTP_STATUS_INTERNAL_SERVER_ERROR,
                  Text(IMAGE_PROCESSING_FAILED))

\* The catch block run for request r: it sends CatchResponse, or the
\* handler's promise rejects with the TypeError and nothing is sent.
Catch(r, err) ==
    IF MessageThrows(err)
    THEN /\ pc' = [pc EXCEPT ![r] = "rejected"]
         /\ res' = res
    ELSE /\ pc' = [pc EXCEPT ![r] = "done"]
         /\ res' = [res EXCEPT ![r] = CatchResponse(err)]

\* The handler from its entry to its first await or early return.
PostImages(r, auth, body) ==
    /\ pc[r] = "idle"
    /\ \A q \in Reqs : q < r => pc[q] # "idle"
    /\ req' = [req EXCEPT ![r] = [auth |-> auth, body |-> body]]
    /\ LET way == Route(auth, body.imgUrl) IN
       CASE way = "missingAuth" ->
              /\ res' = [res EXCEPT ![r] =
                    Response(HTTP_STATUS_UNAUTHORIZED, Text(MISSING_AUTH))]
              /\ pc' = [pc EXCEPT ![r] = "done"]
              /\ UNCHANGED <<imgUrl, isUploadedFile, resolverCalls, createCalls>>
         [] way = "unsupported" ->
              /\ imgUrl' = [imgUrl EXCEPT ![r] = body.imgUrl]
              /\ isUploadedFile' = [isUploadedFile EXCEPT ![r] = FALSE]
              /\ res' = [res EXCEPT ![r] =
                    Response(HTTP_STATUS_BAD_REQUEST,
                             Message(IMAGE_FILE_TYPE_UNSUPPORTED))]
              /\ pc' = [pc EXCEPT ![r] = "done"]
              /\ UNCHANGED <<resolverCalls, createCalls>>
         [] way = "local" ->
              /\ imgUrl' = [imgUrl EXCEPT ![r] = body.imgUrl]
              /\ isUploadedFile' = [isUploadedFile EXCEPT ![r] = TRUE]
              /\ resolverCalls' = [resolverCalls EXCEPT ![r] =
                    Append(@, ResolverArgs(body.imgUrl, auth))]
              /\ pc' = [pc EXCEPT ![r] = "awaitResolve"]
              /\ UNCHANGED <<res, createCalls>>
         [] OTHER ->
              /\ imgUrl' = [imgUrl EXCEPT ![r] = body.imgUrl]
              /\ isUploadedFile' = [isUploadedFile EXCEPT ![r] = FALSE]
              /\ createCalls' = [createCalls EXCEPT ![r] =
                    Append(@, CreateArgs(body, body.imgUrl, FALSE, auth))]
              /\ pc' = [pc EXCEPT ![r] = "awaitCreate"]
              /\ UNCHANGED <<res, resolverCalls>>
    /\ UNCHANGED <<store, resolverOut, createOut, getReq, getRes>>

\* Mutant: the token is kept in a variable shared by all requests, which
\* holds the header of the request that arrived last.
HandleLocalFileReturnsSharedToken(r, url) ==
    /\ pc[r] = "awaitResolve"
    /\ resolverOut' = [resolverOut EXCEPT ![r] = Returned(url)]
    /\ imgUrl' = [imgUrl EXCEPT ![r] = url]
    /\ LET last == CHOOSE q \in Reqs :
                      pc[q] # "idle" /\ \A p \in Reqs : p > q => pc[p] = "idle"
       IN createCalls' = [createCalls EXCEPT ![r] =
             Append(@, [body |-> UpdatedBody(req[r].body, url),
                        isUploadedFile |-> isUploadedFile[r],
                        token |-> req[last].auth])]
    /\ pc' = [pc EXCEPT ![r] = "awaitCreate"]
    /\ UNCHANGED <<store, req, isUploadedFile, res, resolverCalls, createOut,
                   getReq, getRes>>

\* await ImageService.handleLocalFile(...) returns url: the handler goes on
\* to call createImage.
HandleLocalFileReturns(r, url) ==
    /\ pc[r] = "awaitResolve"
    /\ resolverOut' = [resolverOut EXCEPT ![r] = Returned(url)]
    /\ imgUrl' = [imgUrl EXCEPT ![r] = url]
    /\ createCalls' = [createCalls EXCEPT ![r] =
          Append(@, CreateArgs(req[r].body, url, isUploadedFile[r],
                               req[r].auth))]
    /\ pc' = [pc EXCEPT ![r] = "awaitCreate"]
    /\ UNCHANGED <<store, req, isUploadedFile, res, resolverCalls, createOut,
                   getReq, getRes>>

\* Mutant: when the resolver fails, createImage is tried with the
\* reference the caller gave.
HandleLocalFileRaisesFallback(r, err) ==
    /\ pc[r] = "awaitResolve"
    /\ resolverOut' = [resolverOut EXCEPT ![r] = Threw(err)]
    /\ createCalls' = [createCalls EXCEPT ![r] =
          Append(@, [body |-> req[r].body,
                     isUploadedFile |-> isUploadedFile[r],
                     token |-> req[r].auth])]
    /\ pc' = [pc EXCEPT ![r] = "awaitCreate"]
    /\ UNCHANGED <<store, req, imgUrl, isUploadedFile, res, resolverCalls,
                   createOut, getReq, getRes>>

\* await ImageService.handleLocalFile(...) raises err: the catch block.
HandleLocalFileRaises(r, err) ==
    /\ pc[r] = "awaitResolve"
    /\ resolverOut' = [resolverOut EXCEPT ![r] = Threw(err)]
    /\ Catch(r, err)
    /\ UNCHANGED <<store, req, imgUrl, isUploadedFile, resolverCalls,
                   createCalls, createOut, getReq, getRes>>

\* await ImageService.createImage(...) returns the record it persisted.
CreateImageReturns(r, objs) ==
    /\ pc[r] = "awaitCreate"
    /\ LET args == createCalls[r][Len(createCalls[r])]
           rec == PersistedRecord(args.body, args.isUploadedFile,
                                  NextId(store), objs)
       IN /\ store' = Append(store, rec)
          /\ createOut' = [createOut EXCEPT ![r] = Returned(rec)]
          /\ res' = [res EXCEPT ![r] = SendResult(rec)]
    /\ pc' = [pc EXCEPT ![r] = "done"]
    /\ UNCHANGED <<req, imgUrl, isUploadedFile, resolverCalls, createCalls,
                   resolverOut, getReq, getRes>>

\* await ImageService.createImage(...) raises err: the catch block.
CreateImageRaises(r, err) ==
    /\ pc[r] = "awaitCreate"
    /\ createOut' = [createOut EXCEPT ![r] = Threw(err)]
    /\ Catch(r, err)
    /\ UNCHANGED <<store, req, imgUrl, isUploadedFile, resolverCalls,
                   createCalls, resolverOut, getReq, getRes>>

\* ------------------------------------------------------------ read path
\* The characters of an `objects` query string, and the strings up to the
\* bound.
Chars == {"a", "b", ","}
QueryStrings == UNION {[1..n -> Chars] : n \in 0..MaxQueryLen}

\* req.query.objects: absent, one string, or (a repeated parameter) an
\* array of strings.  typeof of an array is "object".
QUndefined == [type |-> "undefined", value |-> <<>>]
QString(s) == [type |-> "string", value |-> s]
QArray(a) == [type |-> "object", value |-> a]
QueryParams ==
    {QUndefined} \cup {QString(s) : s \in QueryStrings}
                 \cup {QArray(<< <<"a">>, <<"b">> >>)}

\* JavaScript truthiness of the parameter: undefined and "" are falsy.
Truthy(q) == ~(q.type = "undefined" \/ (q.type = "string" /\ q.value = <<>>))

\* String.prototype.split(','): the pieces between the commas, empty
\* pieces included.
RECURSIVE SplitFrom(_, _, _, _)
SplitFrom(s, i, piece, pieces) ==
    IF i > Len(s) THEN Append(pieces, piece)
    ELSE IF s[i] = "," THEN SplitFrom(s, i + 1, <<>>, Append(pieces, piece))
    ELSE SplitFrom(s, i + 1, Append(piece, s[i]), pieces)

\* Mutant: the parameter is used as one label, never split.
SplitNone(s) == <<s>>

Split(s) == SplitFrom(s, 1, <<>>, <<>>)

\* ImageMetadata.find({ objects: { $in: objectsArr } }): the documents whose
\* objects array holds at least one of the values, in the store's order.
FindObjectsIn(st, objectsArr) ==
    SelectSeq(st, LAMBDA d :
        \E i \in 1..Len(objectsArr) : objectsArr[i] \in d.objects)

\* ImageMetadata.find({})
FindAll(st) == st

\* ImageMetadata.findById(id): the document, or null.
Null == [tag |-> "null"]
FindById(st, id) ==
    IF \E i \in 1..Len(st) : st[i].id = id
    THEN st[CHOOSE i \in 1..Len(st) : st[i].id = id]
    ELSE Null

\* Mutant: the truthiness test is missing, an empty string is split too.
FilterRequestedAnyString(q) == q.type = "string"

\* if (req.query.objects && typeof req.query.objects === 'string')
FilterRequested(q) == Truthy(q) /\ q.type = "string"

\* The images GET /images sends.
ListedImages(st, q) ==
    IF FilterRequested(q) THEN FindObjectsIn(st, Split(q.value))
    ELSE FindAll(st)

\* Mutant: the null check is missing.
ByIdResponseNoCheck(image) == Response(HTTP_STATUS_OKAY, image)

\* The response of GET /images/:id for what findById gave.
ByIdResponse(image) ==
    IF image = Null
    THEN Response(HTTP_STATUS_BAD_REQUEST, Message(IMAGE_NOT_FOUND))
    ELSE Response(HTTP_STATUS_OKAY, image)

NoGet == [op |-> "none", objects |-> QUndefined, id |-> 0]

\* GET /images, past validateImageGetParams.
GetImages(q) ==
    /\ getReq' = [op |-> "list", objects |-> q, id |-> 0]
    /\ getRes' = Response(HTTP_STATUS_OKAY, ListedImages(store, q))
    /\ UNCHANGED <<store, postVars>>

\* Mutant: findByIdAndDelete in the place of findById.
GetImageByIdAndDelete(id) ==
    /\ getReq' = [op |-> "byId", objects |-> QUndefined, id |-> id]
    /\ getRes' = ByIdResponse(FindById(store, id))
    /\ store' = SelectSeq(store, LAMBDA d : d.id # id)
    /\ UNCHANGED postVars

\* GET /images/:id, past validateObjectId.
GetImageById(id) ==
    /\ getReq' = [op |-> "byId", objects |-> QUndefined, id |-> id]
    /\ getRes' = ByIdResponse(FindById(store, id))
    /\ UNCHANGED <<store, postVars>>

\* ----------------------------------------------------------- write path
NoReq == [auth |-> Undefined, body |-> [imgUrl |-> EmptyRef, label |-> "l1"]]

Init ==
    /\ store = <<>>
    /\ pc = [r \in Reqs |-> "idle"]
    /\ req = [r \in Reqs |-> NoReq]
    /\ imgUrl = [r \in Reqs |-> EmptyRef]
    /\ isUploadedFile = [r \in Reqs |-> FALSE]
    /\ res = [r \in Reqs |-> NoRes]
    /\ resolverCalls = [r \in Reqs |-> <<>>]
    /\ createCalls = [r \in Reqs |-> <<>>]
    /\ resolverOut = [r \in Reqs |-> None]
    /\ createOut = [r \in Reqs |-> None]
    /\ getReq = NoGet
    /\ getRes = NoRes

Next ==
    \/ \E r \in Reqs, auth \in Auths, body \in Bodies : PostImages(r, auth, body)
    \/ \E r \in Reqs, url \in DurableUrls : HandleLocalFileReturns(r, url)
    \/ \E r \in Reqs, err \in Raised : HandleLocalFileRaises(r, err)
    \/ \E r \in Reqs, objs \in DetectedObjects : CreateImageReturns(r, objs)
    \/ \E r \in Reqs, err \in Raised : CreateImageRaises(r, err)

Spec == Init /\ [][Next]_vars

\* ------------------------------------------------- read path, on its own
\* The label sets of the records of an initial collection.
StoredObjects == SUBSET {<<"a">>, <<"b">>}

\* The collections createImage can have built: record i carries the i-th
\* identifier the store assigned.
StoredRecord(i, objs) ==
    PersistedRecord(UpdatedBody([imgUrl |-> RemoteJpg, label |-> "l1"],
                                RemoteJpg), FALSE, i, objs)
Stores ==
    UNION {{[i \in 1..n |-> StoredRecord(i, o[i])] : o \in [1..n -> StoredObjects]}
           : n \in 0..MaxStore}

QueryInit ==
    /\ store \in Stores
    /\ pc = [r \in Reqs |-> "idle"]
    /\ req = [r \in Reqs |-> NoReq]
    /\ imgUrl = [r \in Reqs |-> EmptyRef]
    /\ isUploadedFile = [r \in Reqs |-> FALSE]
    /\ res = [r \in Reqs |-> NoRes]
    /\ resolverCalls = [r \in Reqs |-> <<>>]
    /\ createCalls = [r \in Reqs |-> <<>>]
    /\ resolverOut = [r \in Reqs |-> None]
    /\ createOut = [r \in Reqs |-> None]
    /\ getReq = NoGet
    /\ getRes = NoRes

QueryNext ==
    \/ \E q \in QueryParams : GetImages(q)
    \/ \E id \in 1..(MaxStore + 1) : GetImageById(id)

QuerySpec == QueryInit /\ [][QueryNext]_vars

\* ------------------------------------------------ the three routes together
\* The three routes are run together over one header with a token and one
\* without, one resolved URL, one detected label set and one createImage
\* failure; the resolver fails in every way.
RouterAuths == {Undefined, "tokA"}
RouterUrls == {[loc |-> "remote", name |-> "up1", ext |-> "jpg"]}
RouterObjects == {{<<"a">>}}
RouterCreateRaised == {ErrOther}
RouterQueryParams == {QUndefined, QString(<<"a">>)}

RouterNext ==
    \/ \E r \in Reqs, auth \in RouterAuths, body \in Bodies :
          PostImages(r, auth, body)
    \/ \E r \in Reqs, url \in RouterUrls : HandleLocalFileReturns(r, url)
    \/ \E r \in Reqs, err \in Raised : HandleLocalFileRaises(r, err)
    \/ \E r \in Reqs, objs \in RouterObjects : CreateImageReturns(r, objs)
    \/ \E r \in Reqs, err \in RouterCreateRaised : CreateImageRaises(r, err)
    \/ \E q \in RouterQueryParams : GetImages(q)
    \/ \E id \in 1..(MaxReqs + 1) : GetImageById(id)

RouterSpec == Init /\ [][RouterNext]_vars

\* ================================================================ claims
HasToken(r) == req[r].auth \in {"tokA", "tokB"}
Started(r) == pc[r] # "idle"
Ref(r) == req[r].body.imgUrl
NoExternalCall(r) == resolverCalls[r] = <<>> /\ createCalls[r] = <<>>

\* C1: a create request whose authorization header is absent or empty ends
\* in MissingAuth (401 with the fixed message) whatever its body holds, and
\* neither handleLocalFile nor createImage is called for it.
C1_MissingAuth ==
    \A r \in Reqs :
        (Started(r) /\ req[r].auth \in {Undefined, ""}) =>
            /\ pc[r] = "done"
            /\ res[r] = Response(HTTP_STATUS_UNAUTHORIZED, Text(MISSING_AUTH))
            /\ NoExternalCall(r)

C1_Witness ==
    \E r \in Reqs :
        /\ Started(r) /\ req[r].auth = "" /\ ~isValidImage(Ref(r))
        /\ res[r].status = HTTP_STATUS_UNAUTHORIZED

\* C2: a create request with a token whose reference fails isValidImage
\* ends in UnsupportedFileType (400 with the message object), and the
\* resolver and createImage are called zero times for it.
C2_UnsupportedFileType ==
    \A r \in Reqs :
        (Started(r) /\ HasToken(r) /\ ~isValidImage(Ref(r))) =>
            /\ pc[r] = "done"
            /\ res[r] = Response(HTTP_STATUS_BAD_REQUEST,
                                 Message(IMAGE_FILE_TYPE_UNSUPPORTED))
            /\ Len(resolverCalls[r]) = 0
            /\ Len(createCalls[r]) = 0

C2_Witness ==
    \E r \in Reqs :
        /\ Started(r) /\ HasToken(r) /\ Ref(r) = LocalTxt
        /\ res[r].status = HTTP_STATUS_BAD_REQUEST

\* C3: for a create request with a token and a valid remote reference the
\* resolver is never called, and createImage is called exactly once, with
\* the request's imgUrl unchanged, isUploadedFile = false and the token.
C3_RemotePassthrough ==
    \A r \in Reqs :
        (Started(r) /\ HasToken(r) /\ isValidImage(Ref(r))
                    /\ ~isLocalFile(Ref(r))) =>
            /\ Len(resolverCalls[r]) = 0
            /\ Len(createCalls[r]) = 1
            /\ createCalls[r][1].body.imgUrl = Ref(r)
            /\ createCalls[r][1].isUploadedFile = FALSE
            /\ createCalls[r][1].token = req[r].auth

C3_Witness ==
    \E r \in Reqs :
        /\ HasToken(r) /\ Ref(r) = RemoteJpg
        /\ pc[r] = "done" /\ createOut[r].tag = "returned"
        /\ Len(createCalls[r]) = 1

\* C4: for a create request with a token and a valid local reference the
\* resolver is called exactly once, with the original reference and the
\* token; createImage is not called before the resolver has returned, and
\* once it has, createImage is called exactly once with the URL the
\* resolver returned, isUploadedFile = true and the same token.
C4_LocalResolved ==
    \A r \in Reqs :
        (Started(r) /\ HasToken(r) /\ isValidImage(Ref(r))
                    /\ isLocalFile(Ref(r))) =>
            /\ resolverCalls[r] = <<[ref |-> Ref(r), token |-> req[r].auth]>>
            /\ resolverOut[r].tag = "none" => Len(createCalls[r]) = 0
            /\ resolverOut[r].tag = "returned" =>
                /\ Len(createCalls[r]) = 1
                /\ createCalls[r][1].body.imgUrl = resolverOut[r].value
                /\ createCalls[r][1].isUploadedFile = TRUE
                /\ createCalls[r][1].token = req[r].auth

C4_Witness ==
    \E r \in Reqs :
        /\ HasToken(r) /\ Ref(r) = LocalJpg
        /\ resolverOut[r].tag = "returned"
        /\ Len(createCalls[r]) = 1
        /\ createCalls[r][1].body.imgUrl \in DurableUrls

\* C5: when the resolver reports that the file of a valid local reference
\* does not exist, the request ends in FileNotFound (400 with the body
\* 'image file not found') and createImage is never called for it.
C5_FileNotFound ==
    \A r \in Reqs :
        (Started(r) /\ isValidImage(Ref(r)) /\ isLocalFile(Ref(r))
                    /\ resolverOut[r] = Threw(ErrNotFound)) =>
            /\ pc[r] = "done"
            /\ res[r] = Response(HTTP_STATUS_BAD_REQUEST,
                                 Text(IMAGE_FILE_NOT_FOUND))
            /\ Len(createCalls[r]) = 0

C5_Witness ==
    \E r \in Reqs :
        /\ Ref(r) = LocalJpg /\ resolverOut[r] = Threw(ErrNotFound)
        /\ res[r].status = HTTP_STATUS_BAD_REQUEST

\* C6: every failure raised by createImage, whatever its detail, ends the
\* request in ProcessingFailed (500 'image processing failed'); a request
\* ends in FileNotFound only when its reference is local and the resolver
\* reported not-found.
C6_CreateFailureIsOpaque ==
    \A r \in Reqs :
        /\ createOut[r].tag = "raised" =>
              /\ pc[r] = "done"
              /\ res[r] = Response(HTTP_STATUS_INTERNAL_SERVER_ERROR,
                                   Text(IMAGE_PROCESSING_FAILED))
        /\ res[r] = Response(HTTP_STATUS_BAD_REQUEST,
                             Text(IMAGE_FILE_NOT_FOUND)) =>
              /\ isLocalFile(Ref(r))
              /\ resolverOut[r] = Threw(ErrNotFound)

\* C7: when the resolver fails with anything other than the not-found
\* condition, the request ends in ProcessingFailed (500 with the body
\* 'image processing failed') and createImage is never called for it.
C7_ResolverFailureIsProcessingFailed ==
    \A r \in Reqs :
        (Started(r) /\ isValidImage(Ref(r)) /\ isLocalFile(Ref(r))
                    /\ resolverOut[r].tag = "raised"
                    /\ resolverOut[r].value # ErrNotFound) =>
            /\ pc[r] = "done"
            /\ res[r] = Response(HTTP_STATUS_INTERNAL_SERVER_ERROR,
                                 Text(IMAGE_PROCESSING_FAILED))
            /\ Len(createCalls[r]) = 0

\* C8: whenever createImage has returned, the request has ended with
\* status 200 and a body whose fields are exactly the fields of the record
\* createImage returned; a request has status 200 only after createImage
\* returned for it.
C8_SuccessIsRecordVerbatim ==
    \A r \in Reqs :
        /\ createOut[r].tag = "returned" =>
              /\ pc[r] = "done"
              /\ res[r].status = HTTP_STATUS_OKAY
              /\ DOMAIN res[r].body = DOMAIN createOut[r].value
              /\ \A f \in DOMAIN createOut[r].value :
                    res[r].body[f] = createOut[r].value[f]
        /\ res[r].status = HTTP_STATUS_OKAY => createOut[r].tag = "returned"

C8_Witness ==
    \E r \in Reqs :
        /\ createOut[r].tag = "returned"
        /\ res[r].status = HTTP_STATUS_OKAY
        /\ res[r].body.objects = {<<"a">>}
        /\ res[r].body.isUploadedFile

\* The labels a comma-separated string names: its maximal comma-free
\* stretches.
Labels(s) ==
    {t \in UNION {[1..n -> Chars \ {","}] : n \in 0..Len(s)} :
        \E i \in 1..(Len(s) + 1) :
            /\ i + Len(t) - 1 <= Len(s)
            /\ SubSeq(s, i, i + Len(t) - 1) = t
            /\ (i = 1 \/ s[i - 1] = ",")
            /\ (i + Len(t) - 1 = Len(s) \/ s[i + Len(t)] = ",")}

InBody(rec) == \E j \in 1..Len(getRes.body) : getRes.body[j] = rec

\* C9: GET /images answers 200; with an objects parameter that is a
\* comma-separated list of labels it returns exactly the stored records
\* whose objects hold at least one of the labels, each once, and with no
\* objects parameter it returns every stored record.
C9_ListFilter ==
    getReq.op = "list" =>
        /\ getRes.status = HTTP_STATUS_OKAY
        /\ (getReq.objects.type = "string" /\ getReq.objects.value # <<>>) =>
              /\ \A i \in 1..Len(store) :
                    InBody(store[i]) <=>
                        store[i].objects \cap Labels(getReq.objects.value) # {}
              /\ \A j \in 1..Len(getRes.body) :
                    \E i \in 1..Len(store) : store[i] = getRes.body[j]
              /\ \A j, k \in 1..Len(getRes.body) :
                    getRes.body[j] = getRes.body[k] => j = k
        /\ getReq.objects.type = "undefined" => getRes.body = store

C9_Witness ==
    /\ getReq.op = "list"
    /\ getReq.objects = QString(<<"a", ",", "b">>)
    /\ Len(store) = 2
    /\ store[1].objects = {}
    /\ store[2].objects = {<<"b">>}
    /\ getRes.body = <<store[2]>>

\* C10: GET /images/:id for an identifier of no stored record answers
\* RecordNotFound (400 with {message: 'image not found'}); for the
\* identifier of a stored record it answers 200 with exactly that record.
C10_FetchById ==
    getReq.op = "byId" =>
        IF \E i \in 1..Len(store) : store[i].id = getReq.id
        THEN /\ getRes.status = HTTP_STATUS_OKAY
             /\ \E i \in 1..Len(store) :
                   store[i].id = getReq.id /\ getRes.body = store[i]
        ELSE getRes = Response(HTTP_STATUS_BAD_REQUEST,
                               Message(IMAGE_NOT_FOUND))

C10_Witness ==
    /\ getReq.op = "byId"
    /\ Len(store) = 2
    /\ getReq.id = 3
    /\ getRes.status = HTTP_STATUS_BAD_REQUEST

\* C11: a successful remote create repeated with identical input is not
\* deduplicated: the second request is not cut short by the first,
\* createImage is called once for each (twice in all), and when both have
\* succeeded the store holds two distinct records.
C11_NoDeduplication ==
    \A r1, r2 \in Reqs :
        (/\ r1 # r2 /\ Started(r2)
         /\ HasToken(r1) /\ isValidImage(Ref(r1)) /\ ~isLocalFile(Ref(r1))
         /\ req[r2] = req[r1]
         /\ createOut[r1].tag = "returned") =>
            /\ Len(createCalls[r1]) = 1
            /\ Len(createCalls[r2]) = 1
            /\ createOut[r2].tag = "returned" =>
                /\ createOut[r1].value # createOut[r2].value
                /\ \E i, j \in 1..Len(store) :
                      /\ i # j
                      /\ store[i] = createOut[r1].value
                      /\ store[j] = createOut[r2].value

C11_Witness ==
    \E r1, r2 \in Reqs :
        /\ r1 # r2 /\ req[r1] = req[r2]
        /\ HasToken(r1) /\ Ref(r1) = RemoteJpg
        /\ createOut[r1].tag = "returned" /\ createOut[r2].tag = "returned"
        /\ createOut[r1].value.objects = createOut[r2].value.objects
        /\ Len(store) = 2 /\ store[1] # store[2]

\* What request r has come to when its own header, its own body and the
\* answers its own calls got are all that count: the handler run alone.
FailureAlone(err) ==
    IF err = ErrUndefined THEN <<"rejected", NoRes>>
    ELSE IF err = ErrNotFound
    THEN <<"done", Response(HTTP_STATUS_BAD_REQUEST, Text(IMAGE_FILE_NOT_FOUND))>>
    ELSE <<"done", Response(HTTP_STATUS_INTERNAL_SERVER_ERROR,
                            Text(IMAGE_PROCESSING_FAILED))>>

OutcomeAlone(r) ==
    IF req[r].auth \in {Undefined, ""}
    THEN <<"done", Response(HTTP_STATUS_UNAUTHORIZED, Text(MISSING_AUTH))>>
    ELSE IF ~isValidImage(Ref(r))
    THEN <<"done", Response(HTTP_STATUS_BAD_REQUEST,
                            Message(IMAGE_FILE_TYPE_UNSUPPORTED))>>
    ELSE IF isLocalFile(Ref(r)) /\ resolverOut[r].tag = "none"
    THEN <<"awaitResolve", NoRes>>
    ELSE IF isLocalFile(Ref(r)) /\ resolverOut[r].tag = "raised"
    THEN FailureAlone(resolverOut[r].value)
    ELSE IF createOut[r].tag = "none" THEN <<"awaitCreate", NoRes>>
    ELSE IF createOut[r].tag = "raised" THEN FailureAlone(createOut[r].value)
    ELSE <<"done", Response(HTTP_STATUS_OKAY, createOut[r].value)>>

\* C12: in every interleaving of create requests, each resolver call and
\* each createImage call carries the token of the request that makes it,
\* its imgUrl and isUploadedFile come from that request alone, and each
\* request's outcome is the one it has when run alone against the same
\* answers of the external service.
C12_RequestScoped ==
    \A r \in Reqs : Started(r) =>
        /\ \A i \in 1..Len(resolverCalls[r]) :
              /\ resolverCalls[r][i].token = req[r].auth
              /\ resolverCalls[r][i].ref = Ref(r)
        /\ \A i \in 1..Len(createCalls[r]) :
              /\ createCalls[r][i].token = req[r].auth
              /\ createCalls[r][i].isUploadedFile = isLocalFile(Ref(r))
              /\ createCalls[r][i].body.imgUrl =
                    IF isLocalFile(Ref(r)) THEN resolverOut[r].value
                    ELSE Ref(r)
        /\ <<pc[r], res[r]>> = OutcomeAlone(r)

C12_Witness ==
    \E r1, r2 \in Reqs :
        /\ r1 < r2
        /\ req[r1].auth = "tokA" /\ req[r2].auth = "tokB"
        /\ Ref(r1) = LocalJpg /\ Ref(r2) = RemoteJpg
        /\ pc[r1] = "awaitCreate" /\ Len(createCalls[r1]) = 1
        /\ pc[r2] = "done" /\ createOut[r2].tag = "returned"

\* C13: within one create request no external call is retried and the
\* stages run in order: the resolver is called at most once, createImage at
\* most once, createImage is never called before the resolver call of the
\* request has returned, and once an external call of the request has
\* failed the request makes no further external call.
C13_NoRetryInOrder ==
    \A r \in Reqs :
        /\ Len(resolverCalls[r]) <= 1
        /\ Len(createCalls[r]) <= 1
        /\ (Len(resolverCalls[r]) = 1 /\ Len(createCalls[r]) = 1) =>
              resolverOut[r].tag = "returned"
        /\ resolverOut[r].tag = "raised" =>
              /\ Len(createCalls[r]) = 0
              /\ pc[r] \notin {"awaitResolve", "awaitCreate"}
        /\ createOut[r].tag = "raised" =>
              pc[r] \notin {"awaitResolve", "awaitCreate"}

C13_Witness ==
    \E r \in Reqs :
        /\ Len(resolverCalls[r]) = 1 /\ resolverOut[r].tag = "returned"
        /\ Len(createCalls[r]) = 1 /\ createOut[r] = Threw(ErrOther)
        /\ pc[r] = "done"

\* C14: once the external calls of a create request have all returned or
\* raised, the request is in one terminal state and has sent one response
\* with a status and message of the fixed set, whatever value was raised,
\* a value with no message included.
C14_AlwaysAnswered ==
    \A r \in Reqs :
        (Started(r) /\ pc[r] \notin {"awaitResolve", "awaitCreate"}) =>
            /\ pc[r] = "done"
            /\ res[r] # NoRes
            /\ res[r].status \in {HTTP_STATUS_OKAY, HTTP_STATUS_BAD_REQUEST,
                                  HTTP_STATUS_UNAUTHORIZED,
                                  HTTP_STATUS_INTERNAL_SERVER_ERROR}

\* C15: no createImage call carries the raw local reference of its request:
\* for a local reference the call comes after a resolver call of the same
\* request that returned, and carries the URL it returned; so, the resolver
\* returning durable URLs, no stored record has a local reference as imgUrl.
C15_NoLocalReferenceStored ==
    /\ \A r \in Reqs : \A i \in 1..Len(createCalls[r]) :
          /\ ~isLocalFile(createCalls[r][i].body.imgUrl)
          /\ isLocalFile(Ref(r)) =>
                /\ resolverOut[r].tag = "returned"
                /\ createCalls[r][i].body.imgUrl = resolverOut[r].value
                /\ createCalls[r][i].body.imgUrl # Ref(r)
    /\ \A i \in 1..Len(store) : ~isLocalFile(store[i].imgUrl)

C15_Witness ==
    \E r \in Reqs :
        /\ Ref(r) = LocalJpg /\ createOut[r].tag = "returned"
        /\ \E i \in 1..Len(store) :
              store[i] = createOut[r].value /\ store[i].imgUrl \in DurableUrls

\* C17: the record given to createImage is the request body with only its
\* imgUrl replaced by the (possibly resolved) reference: every other field
\* of the caller is there with its value, no field is added, and the
\* local/remote flag is the separate isUploadedFile argument.
C17_BodyPassedThrough ==
    \A r \in Reqs : \A i \in 1..Len(createCalls[r]) :
        LET sent == createCalls[r][i].body IN
        /\ DOMAIN sent = DOMAIN req[r].body
        /\ \A f \in DOMAIN req[r].body \ {"imgUrl"} : sent[f] = req[r].body[f]
        /\ sent.imgUrl = IF isLocalFile(Ref(r)) THEN resolverOut[r].value
                         ELSE Ref(r)
        /\ "isUploadedFile" \notin DOMAIN sent
        /\ createCalls[r][i].isUploadedFile = isUploadedFile[r]

C17_Witness ==
    \E r \in Reqs :
        /\ Ref(r) = LocalJpg /\ Len(createCalls[r]) = 1
        /\ createCalls[r][1].body.label = "l1"
        /\ createCalls[r][1].body.imgUrl \in DurableUrls
        /\ createCalls[r][1].isUploadedFile

\* C16: every record once stored stays stored and unchanged; the store
\* changes only by a createImage call adding its record; GET /images,
\* GET /images/:id and the create requests that end in MissingAuth, in
\* UnsupportedFileType or in a resolver failure leave the store as it was.
C16_StoreFrame ==
    [][/\ Len(store') >= Len(store)
       /\ \A i \in 1..Len(store) : store'[i] = store[i]
       /\ store' # store =>
             \E r \in Reqs :
                 /\ pc[r] = "awaitCreate"
                 /\ createOut[r].tag = "none"
                 /\ createOut'[r].tag = "returned"
                 /\ store' = Append(store, createOut'[r].value)
       /\ (getReq' # getReq \/ getRes' # getRes) => store' = store
       /\ \A r \in Reqs :
             (/\ pc'[r] # pc[r]
              /\ \/ res'[r].status = HTTP_STATUS_UNAUTHORIZED
                 \/ res'[r] = Response(HTTP_STATUS_BAD_REQUEST,
                                       Message(IMAGE_FILE_TYPE_UNSUPPORTED))
                 \/ resolverOut'[r].tag = "raised") => store' = store
      ]_vars

C16_Witness ==
    /\ Len(store) = 1
    /\ getReq.op = "byId" /\ getReq.id = 1
    /\ getRes = Response(HTTP_STATUS_OKAY, store[1])
    /\ \E r \in Reqs : resolverOut[r].tag = "raised" /\ pc[r] = "done"

\* C18: GET /images filters only for an objects parameter that is one
\* non-empty string; for the empty string and for a parameter that is not
\* a string (a repeated parameter, an array) it returns every stored
\* record, as it does when the parameter is left out.
C18_FilterOnlyForNonEmptyString ==
    getReq.op = "list" =>
        /\ (\/ getReq.objects.type # "string"
            \/ getReq.objects.value = <<>>) =>
              getRes = Response(HTTP_STATUS_OKAY, store)
        /\ (getReq.objects.type = "string" /\ getReq.objects.value # <<>>) =>
              \A j \in 1..Len(getRes.body) :
                  getRes.body[j].objects \cap Labels(getReq.objects.value) # {}

C18_Witness ==
    /\ getReq.op = "list"
    /\ getReq.objects = QString(<<>>)
    /\ Len(store) = 2
    /\ getRes.body = store

====
